---- MODULE Spec2Model ----
(***************************************************************************)
(* A model of mrjob.fs.hadoop.HadoopFilesystem: the adapter that drives    *)
(* the `hadoop fs` command-line tool as a subprocess.                      *)
(*                                                                         *)
(* Text (stdout, stderr, paths, argument words) is modelled as TLA+        *)
(* strings; TLC evaluates Len, \o, SubSeq, Head and Tail on strings, so    *)
(* the regular expressions and the line parsing of the source are          *)
(* computed character by character.                                        *)
(***************************************************************************)
EXTENDS Integers, Sequences, FiniteSets, TLC

VARIABLES
    hadoop_version, \* self._hadoop_version: None, or the cached version string
    hdfs,           \* the store behind the tool: [files: path -> content, dirs: set of paths]
    scratch,        \* the scratch local file of the last write(): "none", "exists", "removed"
    calls,          \* the argument vectors the last operation handed to Popen, in order
    op              \* the last operation: its name, its inputs and its outcome

vars == <<hadoop_version, hdfs, scratch, calls, op>>

(***************************************************************************)
(* Python values                                                           *)
(***************************************************************************)
\* None, and a value that is not None; bool(x) of either.
None == [none |-> TRUE, v |-> <<>>]
Some(x) == [none |-> FALSE, v |-> x]
Falsy(x) == x.none \/ Len(x.v) = 0

Min(S) == CHOOSE x \in S : \A y \in S : x <= y
Max(S) == CHOOSE x \in S : \A y \in S : x >= y
Range(s) == {s[i] : i \in 1..Len(s)}

\* s[i] of a string (1-based), and s.startswith(p)
Char(s, i) == SubSeq(s, i, i)
StartsWith(s, p) == Len(s) >= Len(p) /\ SubSeq(s, 1, Len(p)) = p

\* s.find(sub, from): the first index >= from where sub occurs, 0 when none
IndexOf(s, sub, from) ==
    LET I == {i \in from..(Len(s) - Len(sub) + 1) : SubSeq(s, i, i + Len(sub) - 1) = sub}
    IN  IF I = {} THEN 0 ELSE Min(I)

\* The text before the first newline: what a regex "." can run over from
\* the start of the text.
FirstLine(s) ==
    LET k == IndexOf(s, "\n", 1)
    IN  IF k = 0 THEN s ELSE SubSeq(s, 1, k - 1)

(***************************************************************************)
(* The module's regular expressions, each as re.match(text) computes it:   *)
(* anchored at the start of the text, "." never matching a newline, and    *)
(* "$" matching at the end of the text or before a final newline.          *)
(***************************************************************************)
\* re.compile(r'.*File exists.*')
HADOOP_FILE_EXISTS_RE(s) == IndexOf(FirstLine(s), "File exists", 1) # 0

\* re.compile(r'^lsr: .*: No such file or directory.')
HADOOP_LSR_NO_SUCH_FILE(s) ==
    LET l == FirstLine(s)
        t == ": No such file or directory"
    IN  /\ StartsWith(s, "lsr: ")
        \* ".*" from index 6, the literal, then one more character for "."
        /\ \E i \in 6..(Len(l) - Len(t)) : SubSeq(l, i, i + Len(t) - 1) = t

\* re.compile(r'^rmr: hdfs://.*$')
HADOOP_RMR_NO_SUCH_FILE(s) ==
    LET k == IndexOf(s, "\n", 1)
    IN  /\ StartsWith(s, "rmr: hdfs://")
        /\ (k = 0 \/ k = Len(s))

\* stderr_re.match(stderr) for the compiled patterns above, named by their
\* module-level names
ReMatch(re, s) ==
    CASE re = "HADOOP_FILE_EXISTS_RE" -> HADOOP_FILE_EXISTS_RE(s)
      [] re = "HADOOP_LSR_NO_SUCH_FILE" -> HADOOP_LSR_NO_SUCH_FILE(s)
      [] re = "HADOOP_RMR_NO_SUCH_FILE" -> HADOOP_RMR_NO_SUCH_FILE(s)

(***************************************************************************)
(* invoke_hadoop                                                           *)
(***************************************************************************)
\* HadoopFilesystem(['hadoop'])
hadoop_bin == <<"hadoop">>

\* What an operation hands back: a value, or an exception.
Return(v) == [exc |-> "none", val |-> v, returncode |-> 0, cmd |-> <<>>, msg |-> ""]
Raise(kind, msg) == [exc |-> kind, val |-> 0, returncode |-> 0, cmd |-> <<>>, msg |-> msg]
CalledProcessError(rc, cmd) ==
    [exc |-> "CalledProcessError", val |-> 0, returncode |-> rc, cmd |-> cmd, msg |-> ""]

\* stderr_is_ok: ok_stderr is given, not empty, and one of its patterns matches
StderrIsOk(ok_stderr, stderr) ==
    /\ ~Falsy(ok_stderr)
    /\ \E i \in 1..Len(ok_stderr.v) : ReMatch(ok_stderr.v[i], stderr)

\* ok_returncodes = ok_returncodes or [0]
OkReturncodes(ok_returncodes) ==
    IF Falsy(ok_returncodes) THEN {0} ELSE Range(ok_returncodes.v)

\* invoke_hadoop(args, ok_returncodes, ok_stderr, return_stdout) given what
\* the subprocess produced: proc = [returncode, stdout, stderr]
InvokeHadoop(args, proc, ok_returncodes, ok_stderr, return_stdout) ==
    IF /\ ~StderrIsOk(ok_stderr, proc.stderr)
       /\ proc.returncode \notin OkReturncodes(ok_returncodes)
    THEN CalledProcessError(proc.returncode, hadoop_bin \o args)
    ELSE IF return_stdout THEN Return(proc.stdout) ELSE Return(proc.returncode)

(***************************************************************************)
(* State                                                                   *)
(***************************************************************************)
NoOp == [name |-> "none"]
EmptyHdfs == [files |-> [f \in {} |-> ""], dirs |-> {"/"}]

(***************************************************************************)
(* SpecInvoke: invoke_hadoop over every combination of its inputs          *)
(***************************************************************************)
ReturnCodes == {0, 1, 255}
StderrTexts ==
    { "",
      "rmr: hdfs:///p\n",
      "rmr: s3n://b/p\n",
      "rmr: hdfs:///p\nrmr: hdfs:///q\n",
      "mkdir: cannot create directory /p: File exists\n",
      "WARN x\nmkdir: cannot create directory /p: File exists\n",
      "lsr: Cannot access /p: No such file or directory.\n",
      "lsr: Cannot access /p: No such file or directory",
      "java.io.IOException: boom\n" }
OkReturncodeArgs == {None, Some(<<>>), Some(<<0>>), Some(<<1>>), Some(<<0, 1>>)}
OkStderrArgs ==
    {None, Some(<<>>), Some(<<"HADOOP_FILE_EXISTS_RE">>),
     Some(<<"HADOOP_LSR_NO_SUCH_FILE">>), Some(<<"HADOOP_RMR_NO_SUCH_FILE">>),
     Some(<<"HADOOP_LSR_NO_SUCH_FILE", "HADOOP_FILE_EXISTS_RE">>)}
InvokeArgs == {<<"version">>, <<"fs", "-rmr", "hdfs:///p">>}

\* An operation that has been called and has not returned yet
Pending == [exc |-> "pending", val |-> 0, returncode |-> 0, cmd |-> <<>>, msg |-> ""]

\* One call of invoke_hadoop with inputs of the sets above, not yet run
InitInvoke ==
    /\ hadoop_version = None
    /\ hdfs = EmptyHdfs
    /\ scratch = "none"
    /\ calls = <<>>
    /\ \E args \in InvokeArgs, rc \in ReturnCodes, err \in StderrTexts,
          okrc \in OkReturncodeArgs, okerr \in OkStderrArgs, want \in BOOLEAN :
            op = [name |-> "invoke_hadoop", args |-> args,
                  proc |-> [returncode |-> rc, stdout |-> "out\n", stderr |-> err],
                  ok_returncodes |-> okrc, ok_stderr |-> okerr,
                  return_stdout |-> want, out |-> Pending]

\* The call runs to its end
Invoke ==
    /\ op.name = "invoke_hadoop"
    /\ op.out.exc = "pending"
    /\ op' = [op EXCEPT !.out = InvokeHadoop(op.args, op.proc, op.ok_returncodes,
                                               op.ok_stderr, op.return_stdout)]
    /\ calls' = <<hadoop_bin \o op.args>>
    /\ UNCHANGED <<hadoop_version, hdfs, scratch>>

SpecInvoke == InitInvoke /\ [][Invoke]_vars

\* The stated acceptance rule, read off the call's inputs: the return code
\* is in ok_returncodes (only 0 when none were given), or stderr matches one
\* of the ok_stderr patterns.
Acceptable(o) ==
    \/ o.proc.returncode \in (IF o.ok_returncodes.none THEN {0} ELSE Range(o.ok_returncodes.v))
    \/ /\ ~o.ok_stderr.none
       /\ \E i \in 1..Len(o.ok_stderr.v) : ReMatch(o.ok_stderr.v[i], o.proc.stderr)

\* C1: invoke_hadoop succeeds if and only if the return code is in
\* ok_returncodes (default {0}) or stderr matches an ok_stderr pattern, and
\* otherwise raises CalledProcessError with the return code and the full
\* argument vector.
C1_AcceptIff ==
    (op.name = "invoke_hadoop" /\ op.out.exc # "pending") =>
        /\ (op.out.exc = "none") <=> Acceptable(op)
        /\ op.out.exc # "none" =>
              /\ op.out.exc = "CalledProcessError"
              /\ op.out.returncode = op.proc.returncode
              /\ op.out.cmd = hadoop_bin \o op.args

(***************************************************************************)
(* URIs                                                                    *)
(***************************************************************************)
EndsWith(s, p) == Len(s) >= Len(p) /\ SubSeq(s, Len(s) - Len(p) + 1, Len(s)) = p

\* mrjob.parse.urlparse: scheme://netloc/path; a scheme is the text before
\* the first ":", when "//" follows and it holds no separator or blank
urlparse(uri) ==
    LET k == IndexOf(uri, ":", 1)
        ok == /\ k > 1
              /\ StartsWith(SubSeq(uri, k, Len(uri)), "://")
              /\ \A i \in 1..(k - 1) : Char(uri, i) \notin {"/", " "}
        rest == IF ok THEN SubSeq(uri, k + 3, Len(uri)) ELSE uri
        j == IndexOf(rest, "/", 1)
    IN  IF ~ok
        THEN [scheme |-> "", netloc |-> "", path |-> uri]
        ELSE [scheme |-> SubSeq(uri, 1, k - 1),
              netloc |-> IF j = 0 THEN rest ELSE SubSeq(rest, 1, j - 1),
              path |-> IF j = 0 THEN "" ELSE SubSeq(rest, j, Len(rest))]

\* mrjob.parse.is_uri: the string has a scheme
is_uri(uri) == urlparse(uri).scheme # ""

(***************************************************************************)
(* The `hadoop` tool and the store behind it.  The adapter only sees the   *)
(* tool through Popen: a return code, stdout, stderr, and what the tool    *)
(* did to the store.  The store keeps files (absolute path -> content)     *)
(* and directories (absolute paths); every scheme and host is served by    *)
(* the one store.                                                          *)
(***************************************************************************)
\* Every node the store may hold, parents before children
Nodes == <<"/p", "/p/f", "/p/g", "/p/g/b">>
FileNodes == {"/p/f", "/p/g/b"}
DirNodes == {"/p", "/p/g"}

Exists(store, n) == n \in store.dirs \/ n \in DOMAIN store.files
Parent(n) ==
    LET I == {i \in 1..Len(n) : Char(n, i) = "/"}
    IN  IF Max(I) = 1 THEN "/" ELSE SubSeq(n, 1, Max(I) - 1)
\* m lies below n
Under(n, m) == m # n /\ StartsWith(m, IF n = "/" THEN "/" ELSE n \o "/")

\* The node a path names: the URI's path without a trailing separator
NodeOf(path) ==
    IF Len(path) > 1 /\ EndsWith(path, "/") THEN SubSeq(path, 1, Len(path) - 1)
    ELSE IF path = "" THEN "/" ELSE path

\* The nodes a path or glob matches: P/* is every child of P, anything
\* else the node itself when it is there
Matches(store, path) ==
    IF EndsWith(path, "/*")
    THEN LET d == NodeOf(SubSeq(path, 1, Len(path) - 1))
         IN  {n \in Range(Nodes) : Exists(store, n) /\ Parent(n) = d}
    ELSE {n \in {NodeOf(path)} : Exists(store, n)}

\* The store without the nodes N and everything below them
Remove(store, N) ==
    LET gone(m) == \E n \in N : m = n \/ Under(n, m)
    IN  [files |-> [f \in {x \in DOMAIN store.files : ~gone(x)} |-> store.files[f]],
         dirs |-> {d \in store.dirs : ~gone(d)}]

\* The ancestors of n that are not the root
Ancestors(n) == {d \in DirNodes : Under(d, n)}

\* The text of a sequence of lines
RECURSIVE Concat(_)
Concat(lines) == IF lines = <<>> THEN "" ELSE Head(lines) \o Concat(Tail(lines))

\* One line of `fs -lsr`, in the layout with owner and group (HDFS) or
\* without (S3); newer versions print the full URI
LsrLine(store, n, u, full) ==
    LET name == IF full THEN u.scheme \o "://" \o u.netloc \o n ELSE n
        perm == IF n \in store.dirs THEN "drwxr-xr-x" ELSE "-rw-r--r--"
        size == IF n \in store.dirs THEN "0" ELSE "3276"
    IN  IF u.scheme = "hdfs"
        THEN perm \o "   3 dave users       " \o size \o " 2010-01-13 14:00 " \o name \o "\n"
        ELSE perm \o "   1          " \o size \o " 2010-01-13 14:00 " \o name \o "\n"

ToolOutcome(rc, out, err, store) ==
    [returncode |-> rc, stdout |-> out, stderr |-> err, store |-> store]

\* The tool cannot do its work at all (no name node, no JVM)
ToolTrouble(store) == ToolOutcome(255, "", "java.io.IOException: boom\n", store)

\* hadoop fs -rmr <path>
hadoop_fs_rmr(path_glob, store) ==
    LET N == Matches(store, urlparse(path_glob).path)
    IN  IF N = {}
        THEN ToolOutcome(255, "", "rmr: " \o path_glob \o "\n", store)
        ELSE ToolOutcome(0, "Moved to trash: " \o path_glob \o "\n", "", Remove(store, N))

\* hadoop fs -test -e <path>
hadoop_fs_test(path_glob, store) ==
    IF Matches(store, urlparse(path_glob).path) # {} \/ NodeOf(urlparse(path_glob).path) = "/"
    THEN ToolOutcome(0, "", "", store)
    ELSE ToolOutcome(1, "", "", store)

\* hadoop fs -mkdir [-p] <path>: missing parents are created
hadoop_fs_mkdir(path, store) ==
    LET n == NodeOf(urlparse(path).path)
    IN  IF Exists(store, n) \/ n = "/"
        THEN ToolOutcome(255, "", "mkdir: cannot create directory " \o path \o ": File exists\n", store)
        ELSE IF n \notin DirNodes \/ \E a \in Ancestors(n) : a \in DOMAIN store.files
        THEN ToolOutcome(255, "", "mkdir: " \o path \o ": Not a directory\n", store)
        ELSE ToolOutcome(0, "", "", [store EXCEPT !.dirs = @ \cup {n} \cup Ancestors(n)])

\* hadoop fs -lsr <path>
hadoop_fs_lsr(path_glob, store, full) ==
    LET u == urlparse(path_glob)
        N == Matches(store, u.path)
        listed(n) == \/ n \in N /\ n \in DOMAIN store.files
                     \/ \E d \in N : Under(d, n) /\ Exists(store, n)
                     \/ NodeOf(u.path) = "/" /\ Exists(store, n)
        shown == SelectSeq(Nodes, listed)
    IN  IF N = {} /\ NodeOf(u.path) # "/"
        THEN ToolOutcome(255, "", "lsr: Cannot access " \o path_glob
                                     \o ": No such file or directory.\n", store)
        ELSE ToolOutcome(0, Concat([i \in 1..Len(shown) |-> LsrLine(store, shown[i], u, full)]),
                         "", store)

\* hadoop fs -put <local file> <path>
hadoop_fs_put(content, path, store) ==
    LET n == NodeOf(urlparse(path).path)
    IN  IF Exists(store, n)
        THEN ToolOutcome(255, "", "put: Target " \o path \o " already exists\n", store)
        ELSE IF n \notin FileNodes \/ \E a \in Ancestors(n) : a \in DOMAIN store.files
        THEN ToolOutcome(255, "", "put: " \o path \o ": Not a directory\n", store)
        ELSE ToolOutcome(0, "", "",
                 [files |-> [f \in DOMAIN store.files \cup {n} |->
                                IF f = n THEN content ELSE store.files[f]],
                  dirs |-> store.dirs \cup Ancestors(n)])

\* hadoop fs -cat <path>
hadoop_fs_cat(path, store) ==
    LET n == NodeOf(urlparse(path).path)
    IN  IF n \in DOMAIN store.files
        THEN ToolOutcome(0, store.files[n], "", store)
        ELSE ToolOutcome(255, "", "cat: File does not exist: " \o path \o "\n", store)

(***************************************************************************)
(* Text helpers of the adapter                                             *)
(***************************************************************************)
\* s.split(sep) for a one-character sep: neighbouring separators give ''
RECURSIVE Split(_, _)
Split(s, sep) ==
    LET k == IndexOf(s, sep, 1)
    IN  IF k = 0 THEN <<s>>
        ELSE <<SubSeq(s, 1, k - 1)>> \o Split(SubSeq(s, k + 1, Len(s)), sep)

\* s.split(sep, maxsplit)[-1]: what follows the maxsplit-th separator, or the
\* last field when there are fewer separators
RECURSIVE SplitLast(_, _, _)
SplitLast(s, sep, maxsplit) ==
    LET k == IndexOf(s, sep, 1)
    IN  IF maxsplit = 0 \/ k = 0 THEN s
        ELSE SplitLast(SubSeq(s, k + 1, Len(s)), sep, maxsplit - 1)

\* for line in StringIO(text): the lines, each with its newline
RECURSIVE SplitLines(_)
SplitLines(text) ==
    LET k == IndexOf(text, "\n", 1)
    IN  IF text = "" THEN <<>>
        ELSE IF k = 0 THEN <<text>>
        ELSE <<SubSeq(text, 1, k)>> \o SplitLines(SubSeq(text, k + 1, Len(text)))

\* line.rstrip('\r\n')
RStrip(line) ==
    LET K == {i \in 1..Len(line) : Char(line, i) \notin {"\r", "\n"}}
    IN  IF K = {} THEN "" ELSE SubSeq(line, 1, Max(K))

(***************************************************************************)
(* get_hadoop_version                                                      *)
(***************************************************************************)
Digits == {"0", "1", "2", "3", "4", "5", "6", "7", "8", "9"}

\* The pattern without the dot in its version group
HADOOP_VERSION_RE_digits(first_line) ==
    LET D == {i \in 1..Len(first_line) : Char(first_line, i) \in Digits}
    IN  IF D = {}
        THEN None
        ELSE Some(SubSeq(first_line, Min(D), Max({j \in D : \A i \in Min(D)..j : i \in D})))

\* re.compile(r'^.*?(?P<version>(\d|\.)+).*?$').match(first_line): the
\* version group is the run of digits and dots that starts at the first
\* digit or dot of the line; None when the line has neither
HADOOP_VERSION_RE(first_line) ==
    LET D == {i \in 1..Len(first_line) : Char(first_line, i) \in Digits \cup {"."}}
        start == Min(D)
        stop == Max({j \in D : \A i \in start..j : i \in D})
    IN  IF D = {}
        THEN None
        ELSE Some(SubSeq(first_line, start, stop))

\* What get_hadoop_version makes of the stdout of `hadoop version`
VersionFromStdout(stdout) ==
    LET m == IF stdout = "" THEN None ELSE HADOOP_VERSION_RE(Split(stdout, "\n")[1])
    IN  IF ~m.none THEN m.v ELSE "0.20.203"

\* mrjob.compat.version_gte: the dotted numbers compared place by place
DigitVal(c) == (CHOOSE i \in 1..10 : Char("0123456789", i) = c) - 1
RECURSIVE ParseInt(_)
ParseInt(s) ==
    IF s = "" THEN 0
    ELSE 10 * ParseInt(SubSeq(s, 1, Len(s) - 1)) + DigitVal(Char(s, Len(s)))
RECURSIVE SeqGte(_, _)
SeqGte(a, b) ==
    IF b = <<>> THEN TRUE
    ELSE IF a = <<>> THEN FALSE
    ELSE IF Head(a) # Head(b) THEN Head(a) > Head(b)
    ELSE SeqGte(Tail(a), Tail(b))
version_gte(version, cmp) ==
    LET nums(v) == [i \in 1..Len(Split(v, ".")) |-> ParseInt(Split(v, ".")[i])]
    IN  SeqGte(nums(version), nums(cmp))

(***************************************************************************)
(* ls: the listing parser                                                  *)
(***************************************************************************)
\* The index after the last field that looks like a clock time (5
\* characters, a colon in the middle); 0 stands for None
PathIndex(fields) ==
    LET T == {i \in 1..Len(fields) : Len(fields[i]) = 5 /\ Char(fields[i], 3) = ":"}
    IN  IF T = {} THEN 0 ELSE Max(T)

\* ls's loop body without the test for directories
LsLine_keep_dirs(raw, hdfs_prefix) ==
    IF PathIndex(Split(RStrip(raw), " ")) = 0
    THEN [kind |-> "raise", path |-> "",
          msg |-> "Could not locate path in string '" \o RStrip(raw) \o "'"]
    ELSE [kind |-> "yield",
          path |-> hdfs_prefix \o SplitLast(RStrip(raw), " ", PathIndex(Split(RStrip(raw), " "))),
          msg |-> ""]

\* ls's loop body passing over the lines it cannot parse
LsLine_skip_bad(raw, hdfs_prefix) ==
    IF StartsWith(RStrip(raw), "d") \/ PathIndex(Split(RStrip(raw), " ")) = 0
    THEN [kind |-> "skip", path |-> "", msg |-> ""]
    ELSE [kind |-> "yield",
          path |-> hdfs_prefix \o SplitLast(RStrip(raw), " ", PathIndex(Split(RStrip(raw), " "))),
          msg |-> ""]

\* ls's loop body putting the prefix before every path
LsLine_always_prefix(raw, hdfs_prefix) ==
    IF StartsWith(RStrip(raw), "d")
    THEN [kind |-> "skip", path |-> "", msg |-> ""]
    ELSE IF PathIndex(Split(RStrip(raw), " ")) = 0
    THEN [kind |-> "raise", path |-> "",
          msg |-> "Could not locate path in string '" \o RStrip(raw) \o "'"]
    ELSE [kind |-> "yield",
          path |-> hdfs_prefix \o SplitLast(RStrip(raw), " ", PathIndex(Split(RStrip(raw), " "))),
          msg |-> ""]

\* The body of ls's loop for one line of stdout: the line is skipped, or a
\* path is yielded, or IOError is raised
LsLine(raw, hdfs_prefix) ==
    LET line == RStrip(raw)
        fields == Split(line, " ")
        path_index == PathIndex(fields)
        path == SplitLast(line, " ", path_index)
    IN  IF StartsWith(fields[1], "d")
        THEN [kind |-> "skip", path |-> "", msg |-> ""]
        ELSE IF path_index = 0
        THEN [kind |-> "raise", path |-> "",
              msg |-> "Could not locate path in string '" \o line \o "'"]
        ELSE [kind |-> "yield",
              path |-> IF is_uri(path) THEN path ELSE hdfs_prefix \o path,
              msg |-> ""]

\* The generator run to its end over the lines: everything it yields, and
\* the IOError that ends it early if a line cannot be parsed
RECURSIVE LsLines(_, _, _)
LsLines(lines, hdfs_prefix, yielded) ==
    IF lines = <<>> THEN Return(yielded)
    ELSE LET r == LsLine(Head(lines), hdfs_prefix)
         IN  CASE r.kind = "skip" -> LsLines(Tail(lines), hdfs_prefix, yielded)
               [] r.kind = "yield" -> LsLines(Tail(lines), hdfs_prefix, Append(yielded, r.path))
               [] r.kind = "raise" -> [Raise("IOError", r.msg) EXCEPT !.val = yielded]

\* '%s://%s' % (components.scheme, components.netloc)
HdfsPrefix(path_glob) == urlparse(path_glob).scheme \o "://" \o urlparse(path_glob).netloc


(***************************************************************************)
(* Popen: the subprocess the adapter starts.  env is what the environment  *)
(* decides for this call: whether the tool is in trouble, whether its      *)
(* listings carry full URIs, and what `hadoop version` does.  payload is   *)
(* the content of the local file a -put names.                             *)
(***************************************************************************)
Popen(args, env, payload) ==
    IF args[2] = "version"
    THEN IF env.vfail THEN ToolTrouble(hdfs) ELSE ToolOutcome(0, env.vout, "", hdfs)
    ELSE IF env.trouble THEN ToolTrouble(hdfs)
    ELSE CASE args[3] = "-rmr" -> hadoop_fs_rmr(args[4], hdfs)
           [] args[3] = "-test" -> hadoop_fs_test(args[5], hdfs)
           [] args[3] = "-mkdir" -> hadoop_fs_mkdir(args[Len(args)], hdfs)
           [] args[3] = "-lsr" -> hadoop_fs_lsr(args[4], hdfs, env.full)
           [] args[3] = "-put" -> hadoop_fs_put(payload, args[5], hdfs)
           [] args[3] = "-cat" -> hadoop_fs_cat(args[4], hdfs)

\* What a method leaves behind: its outcome, the commands it ran, the
\* store and the version cache afterwards, and the last process it ran
Done(out, cmds, store, cache, proc) ==
    [out |-> out, calls |-> cmds, store |-> store, cache |-> cache,
     returncode |-> proc.returncode, stderr |-> proc.stderr]
NoProc == [returncode |-> -1, stderr |-> ""]

(***************************************************************************)
(* The adapter's methods                                                   *)
(***************************************************************************)
\* Each method is written as a chain: the method builds its command and
\* starts the process, the next definition classifies what the process
\* produced with invoke_hadoop, the last one turns that into the method's
\* outcome.

\* get_hadoop_version(): lines 124-133, given what invoke_hadoop returned
version_done(r, proc) ==
    IF r.exc # "none"
    THEN Done(r, <<hadoop_bin \o <<"version">>>>, proc.store, hadoop_version, proc)
    ELSE Done(Return(VersionFromStdout(r.val)), <<hadoop_bin \o <<"version">>>>,
              proc.store, Some(VersionFromStdout(r.val)), proc)

\* get_hadoop_version(): line 123, the call of invoke_hadoop
version_invoke(proc) == version_done(InvokeHadoop(<<"version">>, proc, None, None, TRUE), proc)

\* get_hadoop_version() without its test of the cached value
get_hadoop_version_uncached(env) ==
    version_invoke(Popen(hadoop_bin \o <<"version">>, env, ""))

\* get_hadoop_version(): the cached value, or the tool is asked
get_hadoop_version(env) ==
    IF ~Falsy(hadoop_version)
    THEN Done(Return(hadoop_version.v), <<>>, hdfs, hadoop_version, NoProc)
    ELSE version_invoke(Popen(hadoop_bin \o <<"version">>, env, ""))

\* ls(path_glob): the loop over the lines of stdout
ls_done(path_glob, r, proc) ==
    Done(IF r.exc = "CalledProcessError"
         THEN [Raise("IOError", "Could not ls " \o path_glob) EXCEPT !.val = <<>>]
         ELSE LsLines(SplitLines(r.val), HdfsPrefix(path_glob), <<>>),
         <<hadoop_bin \o <<"fs", "-lsr", path_glob>>>>, proc.store, hadoop_version, proc)

\* ls() calling invoke_hadoop without its ok_stderr
ls_invoke_strict(path_glob, proc) ==
    ls_done(path_glob,
            InvokeHadoop(<<"fs", "-lsr", path_glob>>, proc, None, None, TRUE),
            proc)

\* ls(path_glob): the call of invoke_hadoop
ls_invoke(path_glob, proc) ==
    ls_done(path_glob,
            InvokeHadoop(<<"fs", "-lsr", path_glob>>, proc, None,
                         Some(<<"HADOOP_LSR_NO_SUCH_FILE">>), TRUE),
            proc)

\* list(ls(path_glob)): the generator run to its end
ls(path_glob, env) ==
    ls_invoke(path_glob, Popen(hadoop_bin \o <<"fs", "-lsr", path_glob>>, env, ""))

\* mkdir(path): the call of invoke_hadoop and the except clause
mkdir_invoke(path, args, v, proc) ==
    Done(IF InvokeHadoop(args, proc, None, Some(<<"HADOOP_FILE_EXISTS_RE">>), FALSE).exc
              = "CalledProcessError"
         THEN Raise("IOError", "Could not mkdir " \o path)
         ELSE Return(None),
         v.calls \o <<hadoop_bin \o args>>, proc.store, v.cache, proc)

\* mkdir(path): the process is started
mkdir_run(path, args, v, env) == mkdir_invoke(path, args, v, Popen(hadoop_bin \o args, env, ""))

\* mkdir(path): the arguments, with -p from version 2.0.0 on; an exception
\* of get_hadoop_version leaves mkdir as it is
mkdir_args(path, v, env) ==
    IF v.out.exc # "none"
    THEN v
    ELSE mkdir_run(path,
                   <<"fs", "-mkdir">>
                     \o (IF version_gte(v.out.val, "2.0.0") THEN <<"-p">> ELSE <<>>)
                     \o <<path>>,
                   v, env)

\* mkdir(path)
mkdir(path, env) == mkdir_args(path, get_hadoop_version(env), env)

\* path_exists() taking every accepted return code for "there"
path_exists_done_any(path_glob, r, proc) ==
    Done(IF r.exc = "CalledProcessError"
         THEN Raise("IOError", "Could not check path " \o path_glob)
         ELSE Return(r.val \in {0, 1}),
         <<hadoop_bin \o <<"fs", "-test", "-e", path_glob>>>>, proc.store, hadoop_version, proc)

\* path_exists(path_glob): the return code compared, and the except clause
path_exists_done(path_glob, r, proc) ==
    Done(IF r.exc = "CalledProcessError"
         THEN Raise("IOError", "Could not check path " \o path_glob)
         ELSE Return(r.val = 0),
         <<hadoop_bin \o <<"fs", "-test", "-e", path_glob>>>>, proc.store, hadoop_version, proc)

\* path_exists() calling invoke_hadoop without its ok_returncodes
path_exists_invoke_default(path_glob, proc) ==
    path_exists_done(path_glob,
                     InvokeHadoop(<<"fs", "-test", "-e", path_glob>>, proc, None, None, FALSE),
                     proc)

\* path_exists(path_glob): the call of invoke_hadoop
path_exists_invoke(path_glob, proc) ==
    path_exists_done(path_glob,
                     InvokeHadoop(<<"fs", "-test", "-e", path_glob>>, proc, Some(<<0, 1>>),
                                  None, FALSE),
                     proc)

\* path_exists(path_glob)
path_exists(path_glob, env) ==
    path_exists_invoke(path_glob, Popen(hadoop_bin \o <<"fs", "-test", "-e", path_glob>>, env, ""))

\* rm(path_glob): the call of invoke_hadoop and the except clause
rm_invoke(path_glob, proc) ==
    Done(IF InvokeHadoop(<<"fs", "-rmr", path_glob>>, proc, None,
                         Some(<<"HADOOP_RMR_NO_SUCH_FILE">>), TRUE).exc = "CalledProcessError"
         THEN Raise("IOError", "Could not rm " \o path_glob)
         ELSE Return(None),
         <<hadoop_bin \o <<"fs", "-rmr", path_glob>>>>, proc.store, hadoop_version, proc)

\* rm(path_glob), for the URIs the adapter handles
rm(path_glob, env) ==
    rm_invoke(path_glob, Popen(hadoop_bin \o <<"fs", "-rmr", path_glob>>, env, ""))

\* copy_from_local without its except clause taking effect
copy_invoke_silent(args, proc) ==
    Done(Return(None), <<hadoop_bin \o args>>, proc.store, hadoop_version, proc)

\* copy_from_local: the call of invoke_hadoop and the except clause
copy_invoke(args, proc) ==
    Done(IF InvokeHadoop(args, proc, None, None, FALSE).exc = "CalledProcessError"
         THEN Raise("OSError", "Could not create file: ")
         ELSE Return(None),
         <<hadoop_bin \o args>>, proc.store, hadoop_version, proc)

\* copy_from_local: the process is started
copy_run(args, payload, env) == copy_invoke(args, Popen(hadoop_bin \o args, env, payload))

\* copy_from_local: the two assertions, then the -put of file://<local file>
copy_checked(path, u, local, env) ==
    IF u.scheme \notin {"", "test"}
    THEN Done(Raise("AssertionError", "local_file must be local"), <<>>, hdfs,
              hadoop_version, NoProc)
    ELSE IF u.path \notin DOMAIN local
    THEN Done(Raise("AssertionError", "local_file must exist"), <<>>, hdfs,
              hadoop_version, NoProc)
    ELSE copy_run(<<"fs", "-put", "file://" \o u.netloc \o u.path, path>>, local[u.path], env)

\* copy_from_local(path, local_file): local is the local disk, a function
\* from the paths of its files to their contents
copy_from_local(path, local_file, local, env) ==
    copy_checked(path, urlparse(local_file), local, env)

\* What write() spools to its scratch file: shutil.copyfileobj reads a
\* stream from where it stands; a value without read() raises
\* AttributeError and is wrapped in StringIO; a stream whose read() fails
\* raises out of the spooling
Spool(content) ==
    CASE content.kind = "str" -> Return(content.data)
      [] content.kind = "file" -> Return(SubSeq(content.data, content.pos + 1, Len(content.data)))
      [] content.kind = "broken" -> Raise("IOError", "read failed")

\* mkstemp(suffix='hadoop-upload')
content_path == "/tmp/tmpXhadoop-upload"

\* write(path, content) once the content is spooled, or the spooling has
\* failed: the outcome, and whether the scratch file is still there
write_spooled(path, spooled, env) ==
    IF spooled.exc # "none"
    THEN [done |-> Done(spooled, <<>>, hdfs, hadoop_version, NoProc),
          scratch |-> "exists"]
    ELSE [done |-> copy_from_local(path, content_path,
                                   [f \in {content_path} |-> spooled.val], env),
          scratch |-> "removed"]

\* write(path, content)
write(path, content, env) == write_spooled(path, Spool(content), env)

\* _cat_file yielding its lines without their line ends
cat_stream_stripped(filename, proc) ==
    Done(Return([i \in 1..Len(SplitLines(proc.stdout)) |-> RStrip(SplitLines(proc.stdout)[i])]),
         <<hadoop_bin \o <<"fs", "-cat", filename>>>>, proc.store, hadoop_version, proc)

\* _cat_file: the stream run to its end: the lines of the tool's stdout,
\* then IOError if the tool's return code is not 0
cat_stream(filename, proc) ==
    Done(IF proc.returncode # 0
         THEN [Raise("IOError", "Could not stream " \o filename)
                 EXCEPT !.val = SplitLines(proc.stdout)]
         ELSE Return(SplitLines(proc.stdout)),
         <<hadoop_bin \o <<"fs", "-cat", filename>>>>, proc.store, hadoop_version, proc)

\* list(_cat_file(filename))
cat_file(filename, env) ==
    cat_stream(filename, Popen(hadoop_bin \o <<"fs", "-cat", filename>>, env, ""))

(***************************************************************************)
(* Spec: one HadoopFilesystem instance, called again and again             *)
(***************************************************************************)
\* The paths the callers use
PathArgs == {"hdfs:///p", "hdfs:///p/", "hdfs:///p/*", "hdfs:///p/g/b", "s3n://b/p"}
FileArgs == {"hdfs:///p/f", "s3n://b/p/f"}
DirArgs == {"hdfs:///p", "hdfs:///p/g", "s3n://b/p"}

\* What is written: a str, or a stream that has been read up to pos
MaxPos == 1
Texts == {"a\nb"}
Contents ==
    {[kind |-> "str", data |-> d, pos |-> 0] : d \in Texts}
      \cup {[kind |-> "file", data |-> d, pos |-> q] : d \in Texts, q \in 0..MaxPos}
      \cup {[kind |-> "broken", data |-> "", pos |-> 0]}

\* The local disk of copy_from_local's callers
LocalDisk == [f \in {"/tmp/src"} |-> "a\nb"]
LocalArgs == {"/tmp/src", "/tmp/missing", "hdfs:///p/f"}

\* What `hadoop version` may print
VersionOutputs == {"Hadoop 0.20.203\nSubversion http://x -r 1\n", "Hadoop 2.0.0-cdh4.1.2\n", "", "unknown\n"}

Env(trouble, full, vfail, vout) ==
    [trouble |-> trouble, full |-> full, vfail |-> vfail, vout |-> vout]
Calm == Env(FALSE, FALSE, FALSE, "Hadoop 0.20.203\n")
Troubled == Env(TRUE, FALSE, FALSE, "Hadoop 0.20.203\n")
VersionEnvs ==
    {Env(FALSE, FALSE, FALSE, o) : o \in VersionOutputs} \cup {Env(FALSE, FALSE, TRUE, "")}

\* What the store holds when the instance is made: nothing, or a tree
Tree == [files |-> [f \in FileNodes |-> "c\n"], dirs |-> {"/"} \cup DirNodes]

Init ==
    /\ hadoop_version = None
    /\ hdfs \in {EmptyHdfs, Tree}
    /\ scratch = "none"
    /\ calls = <<>>
    /\ op = NoOp

\* A method has run: its name, its arguments and what it left behind
Finish(name, path, arg, d) ==
    /\ op' = [name |-> name, path |-> path, arg |-> arg, out |-> d.out,
              returncode |-> d.returncode, stderr |-> d.stderr]
    /\ calls' = d.calls
    /\ hdfs' = d.store
    /\ hadoop_version' = d.cache

GetHadoopVersion ==
    \E env \in VersionEnvs :
        /\ Finish("get_hadoop_version", "", "", get_hadoop_version(env))
        /\ UNCHANGED scratch

Ls ==
    \E path_glob \in PathArgs, env \in {Calm, Troubled, [Calm EXCEPT !.full = TRUE]} :
        /\ Finish("ls", path_glob, "", ls(path_glob, env))
        /\ UNCHANGED scratch

Mkdir ==
    \E path \in DirArgs, trouble \in BOOLEAN,
       venv \in (IF Falsy(hadoop_version) THEN VersionEnvs ELSE {Calm}) :
        /\ Finish("mkdir", path, "", mkdir(path, [venv EXCEPT !.trouble = trouble]))
        /\ UNCHANGED scratch

PathExists ==
    \E path_glob \in PathArgs, trouble \in BOOLEAN :
        /\ Finish("path_exists", path_glob, "",
                  path_exists(path_glob, (IF trouble THEN Troubled ELSE Calm)))
        /\ UNCHANGED scratch

Rm ==
    \E path_glob \in PathArgs, trouble \in BOOLEAN :
        /\ is_uri(path_glob)
        /\ Finish("rm", path_glob, "", rm(path_glob, (IF trouble THEN Troubled ELSE Calm)))
        /\ UNCHANGED scratch

CopyFromLocal ==
    \E path \in FileArgs, local_file \in LocalArgs, trouble \in BOOLEAN :
        /\ Finish("copy_from_local", path, local_file,
                  copy_from_local(path, local_file, LocalDisk, (IF trouble THEN Troubled ELSE Calm)))
        /\ UNCHANGED scratch

Write ==
    \E path \in FileArgs, content \in Contents, trouble \in BOOLEAN :
        LET w == write(path, content, (IF trouble THEN Troubled ELSE Calm))
        IN  /\ Finish("write", path, content, w.done)
            /\ scratch' = w.scratch

Cat ==
    \E filename \in FileArgs, trouble \in BOOLEAN :
        /\ Finish("cat", filename, "", cat_file(filename, (IF trouble THEN Troubled ELSE Calm)))
        /\ UNCHANGED scratch

Next ==
    \/ GetHadoopVersion
    \/ Ls
    \/ Mkdir
    \/ PathExists
    \/ Rm
    \/ CopyFromLocal
    \/ Write
    \/ Cat

Spec == Init /\ [][Next]_vars

(***************************************************************************)
(* SpecLs: ls over what the tool may print, line by line                   *)
(***************************************************************************)
\* The lines of a listing: the text, the line end, and the path the line
\* names when it names a file
LsLine1 == [text |-> "-rw-r--r--   3 dave users       3276 2010-01-13 14:00 /p/f",
            eol |-> "\n", path |-> "/p/f"]
LsLine2 == [text |-> "drwxr-xr-x   - dave users          0 2010-01-13 14:00 /p/g",
            eol |-> "\n", path |-> ""]
LsLine3 == [text |-> "-rwxrwxrwx   1          3276 010-01-13 14:00 /p/g/a/b",
            eol |-> "\r\n", path |-> "/p/g/a/b"]
LsLine4 == [text |-> "Found 3 items", eol |-> "\n", path |-> ""]
LsLine5 == [text |-> "drwx", eol |-> "\n", path |-> ""]
LsLine6 == [text |-> "", eol |-> "\n", path |-> ""]
ListingLines == {LsLine1, LsLine2, LsLine3, LsLine4, LsLine5, LsLine6}

\* The longest listing
MaxLines == 3
Listings == UNION {[1..n -> ListingLines] : n \in 0..MaxLines}

\* The tool's stdout for a listing
ListingText(lines) == Concat([i \in 1..Len(lines) |-> lines[i].text \o lines[i].eol])

InitLs ==
    /\ hadoop_version = None
    /\ hdfs = EmptyHdfs
    /\ scratch = "none"
    /\ calls = <<>>
    /\ op \in {[name |-> "ls_stdout", path |-> "hdfs:///p", lines |-> l, out |-> Pending] :
                 l \in Listings}

\* ls(path_glob) when the tool exits with 0 and prints the listing
LsStdout ==
    /\ op.out.exc = "pending"
    /\ op' = [op EXCEPT !.out = ls_invoke(op.path,
                                            ToolOutcome(0, ListingText(op.lines), "", hdfs)).out]
    /\ UNCHANGED <<hadoop_version, hdfs, scratch, calls>>

SpecLs == InitLs /\ [][LsStdout]_vars

(***************************************************************************)
(* du: the size summary                                                    *)
(***************************************************************************)
\* The characters str.split() and str.strip() take for whitespace
Whitespace == {" ", "\t", "\r", "\n"}

\* line.split(): the runs of characters that are not whitespace
RECURSIVE WsSplit(_)
WsSplit(s) ==
    LET B == {i \in 1..Len(s) : Char(s, i) \notin Whitespace}
        E == {i \in 1..Len(s) : i > Min(B) /\ Char(s, i) \in Whitespace}
    IN  IF B = {} THEN <<>>
        ELSE IF E = {} THEN <<SubSeq(s, Min(B), Len(s))>>
        ELSE <<SubSeq(s, Min(B), Min(E) - 1)>> \o WsSplit(SubSeq(s, Min(E), Len(s)))

\* int(tok) for a field of split(): an optional sign and decimal digits,
\* None standing for ValueError
PyInt(tok) ==
    LET signed == Len(tok) > 0 /\ Char(tok, 1) \in {"+", "-"}
        digits == IF signed THEN SubSeq(tok, 2, Len(tok)) ELSE tok
    IN  IF Len(digits) = 0 \/ \E i \in 1..Len(digits) : Char(digits, i) \notin Digits
        THEN None
        ELSE Some(IF signed /\ Char(tok, 1) = "-" THEN 0 - ParseInt(digits) ELSE ParseInt(digits))

\* '%r' % stdout
RECURSIVE ReprBody(_)
ReprBody(s) ==
    IF s = "" THEN ""
    ELSE (CASE Head(s) = "\n" -> "\\n"
            [] Head(s) = "\t" -> "\\t"
            [] Head(s) = "\r" -> "\\r"
            [] Head(s) = "\\" -> "\\\\"
            [] Head(s) = "'" -> "\\'"
            [] OTHER -> SubSeq(s, 1, 1)) \o ReprBody(Tail(s))
Repr(s) == "'" \o ReprBody(s) \o "'"

\* du's generator for one line without counting what cannot be read
du_line_skip_bad(line) ==
    IF Len(WsSplit(line)) < 2 \/ PyInt(WsSplit(line)[2]).none
    THEN [kind |-> "skip", n |-> 0]
    ELSE [kind |-> "add", n |-> PyInt(WsSplit(line)[2]).v]

\* The generator inside du's sum() for one line of stdout.split('\n'): the
\* line is passed over, or gives a number, or raises IndexError/ValueError
du_line(line) ==
    IF WsSplit(line) = <<>> THEN [kind |-> "skip", n |-> 0]
    ELSE IF Len(WsSplit(line)) < 2 THEN [kind |-> "raise", n |-> 0]
    ELSE IF PyInt(WsSplit(line)[2]).none THEN [kind |-> "raise", n |-> 0]
    ELSE [kind |-> "add", n |-> PyInt(WsSplit(line)[2]).v]

\* sum(...) over the lines, and the except clause around it
RECURSIVE du_sum(_, _, _)
du_sum(lines, total, stdout) ==
    IF lines = <<>> THEN Return(total)
    ELSE CASE du_line(Head(lines)).kind = "skip" -> du_sum(Tail(lines), total, stdout)
           [] du_line(Head(lines)).kind = "add" ->
                  du_sum(Tail(lines), total + du_line(Head(lines)).n, stdout)
           [] du_line(Head(lines)).kind = "raise" ->
                  Raise("IOError", "Unexpected output from hadoop fs -du: " \o Repr(stdout))

\* du(path_glob) given what invoke_hadoop returned or raised
du_done(path_glob, r, proc) ==
    Done(IF r.exc = "CalledProcessError"
         THEN Raise("IOError", path_glob)
         ELSE du_sum(Split(r.val, "\n"), 0, r.val),
         <<hadoop_bin \o <<"fs", "-dus", path_glob>>>>, proc.store, hadoop_version, proc)

\* du(path_glob): the call of invoke_hadoop
du_invoke(path_glob, proc) ==
    du_done(path_glob, InvokeHadoop(<<"fs", "-dus", path_glob>>, proc, None, None, TRUE), proc)

(***************************************************************************)
(* SpecDu: du over what the tool may print                                 *)
(***************************************************************************)
\* The lines of a size summary: the text and the size the line gives;
\* kind says whether the line is blank, gives a size, or gives none
DuLine1 == [text |-> "hdfs:///p/f\t4", kind |-> "size", size |-> 4]
DuLine2 == [text |-> "hdfs:///p/g  12\r", kind |-> "size", size |-> 12]
DuLine3 == [text |-> "", kind |-> "blank", size |-> 0]
DuLine4 == [text |-> " \t\r", kind |-> "blank", size |-> 0]
DuLine5 == [text |-> "hdfs:///p/f", kind |-> "short", size |-> 0]
DuLine6 == [text |-> "hdfs:///p/f 4k", kind |-> "text", size |-> 0]
DuLine7 == [text |-> "hdfs:///p/f 7 more", kind |-> "size", size |-> 7]
DuLines == {DuLine1, DuLine2, DuLine3, DuLine4, DuLine5, DuLine6, DuLine7}

\* The longest size summary
MaxDuLines == 3
DuOutputs == UNION {[1..n -> DuLines] : n \in 0..MaxDuLines}

\* The tool's stdout for a size summary
DuText(lines) == Concat([i \in 1..Len(lines) |-> lines[i].text \o "\n"])

InitDu ==
    /\ hadoop_version = None
    /\ hdfs = EmptyHdfs
    /\ scratch = "none"
    /\ calls = <<>>
    /\ op \in {[name |-> "du_stdout", path |-> "hdfs:///p", lines |-> l, rc |-> rc,
                out |-> Pending] : l \in DuOutputs, rc \in {0, 255}}

\* du(path_glob) when the tool prints the summary and exits with rc
DuStdout ==
    /\ op.out.exc = "pending"
    /\ op' = [op EXCEPT !.out = du_invoke(op.path,
                                            ToolOutcome(op.rc, DuText(op.lines), "", hdfs)).out]
    /\ UNCHANGED <<hadoop_version, hdfs, scratch, calls>>

SpecDu == InitDu /\ [][DuStdout]_vars

(***************************************************************************)
(* SpecCat: the generator _cat_file returns, pulled by its consumer        *)
(***************************************************************************)
\* The lines the tool may print for a file
CatLineTexts == {"a\n", "b\n"}

\* The longest file
MaxCatLines == 3
CatOutputs == UNION {[1..n -> CatLineTexts] : n \in 0..MaxCatLines}

\* _cat_file(filename): Popen has started the process, stream() has made
\* the generator, nothing has run in it yet.  gen is where the generator
\* stands, yielded what it has yielded, waited whether cat_proc.wait() has
\* been called
InitCat ==
    /\ hadoop_version = None
    /\ hdfs = EmptyHdfs
    /\ scratch = "none"
    /\ calls = <<>>
    /\ op \in {[name |-> "cat_stream", path |-> "hdfs:///p/f", lines |-> l, rc |-> rc,
                gen |-> "created", yielded |-> <<>>, waited |-> FALSE, exc |-> "none"] :
                 l \in CatOutputs, rc \in {0, 1}}

\* next() on the generator while cat_proc.stdout has a line: the line is
\* yielded
CatYield ==
    /\ op.gen \in {"created", "suspended"}
    /\ Len(op.yielded) < Len(op.lines)
    /\ op' = [op EXCEPT !.gen = "suspended",
                        !.yielded = Append(@, op.lines[Len(op.yielded) + 1])]
    /\ UNCHANGED <<hadoop_version, hdfs, scratch, calls>>

\* next() on the generator when cat_proc.stdout is at its end: stderr is
\* logged, cat_proc.wait() is called, and the generator ends with
\* StopIteration or, for a return code other than 0, with IOError
CatFinish ==
    /\ op.gen \in {"created", "suspended"}
    /\ Len(op.yielded) = Len(op.lines)
    /\ op' = [op EXCEPT !.gen = "finished", !.waited = TRUE,
                        !.exc = IF op.rc # 0 THEN "IOError" ELSE "none"]
    /\ UNCHANGED <<hadoop_version, hdfs, scratch, calls>>

\* The consumer stops pulling: the generator is closed (or dropped) where
\* it stands; GeneratorExit is raised at the yield, which no try statement
\* of stream() encloses, so nothing more of stream() runs
CatClose ==
    /\ op.gen \in {"created", "suspended"}
    /\ op' = [op EXCEPT !.gen = "closed"]
    /\ UNCHANGED <<hadoop_version, hdfs, scratch, calls>>

NextCat == CatYield \/ CatFinish \/ CatClose

SpecCat == InitCat /\ [][NextCat]_vars

(***************************************************************************)
(* SpecVersion: get_hadoop_version over what `hadoop version` may print    *)
(***************************************************************************)
\* The pieces the stdout of `hadoop version` is made of
VersionTokens == {"Hadoop ", "2.0.0", "-cdh4.1", "\n", ".", "r1 "}

\* The most pieces in one stdout
MaxTokens == 3
VersionTexts == UNION {[1..n -> VersionTokens] : n \in 0..MaxTokens}

InitVersion ==
    /\ hadoop_version = None
    /\ hdfs = EmptyHdfs
    /\ scratch = "none"
    /\ calls = <<>>
    /\ op \in {[name |-> "version_stdout", stdout |-> Concat(t), out |-> Pending,
                again |-> Pending] : t \in VersionTexts}

\* The first get_hadoop_version() of the instance: the tool prints stdout
VersionFirst ==
    /\ op.out.exc = "pending"
    /\ LET d == get_hadoop_version(Env(FALSE, FALSE, FALSE, op.stdout))
       IN  /\ op' = [op EXCEPT !.out = d.out]
           /\ calls' = d.calls
           /\ hadoop_version' = d.cache
    /\ UNCHANGED <<hdfs, scratch>>

\* The next get_hadoop_version(), when the tool would print something else
VersionAgain ==
    /\ op.out.exc # "pending" /\ op.again.exc = "pending"
    /\ LET d == get_hadoop_version(Env(FALSE, FALSE, FALSE, "Hadoop 9.9\n"))
       IN  /\ op' = [op EXCEPT !.again = d.out]
           /\ calls' = d.calls
           /\ hadoop_version' = d.cache
    /\ UNCHANGED <<hdfs, scratch>>

NextVersion == VersionFirst \/ VersionAgain

SpecVersion == InitVersion /\ [][NextVersion]_vars

(***************************************************************************)
(* SpecLsPath: ls over lines for files of many names, in both layouts      *)
(***************************************************************************)
\* What comes before the name in a line: with owner and group (HDFS), and
\* without (S3)
Layouts == {"-rw-r--r--   3 dave users       3276 2010-01-13 14:00 ",
            "-rwxrwxrwx   1          3276 010-01-13 14:00 "}

\* The names the tool prints, and whether the name is a URI with a scheme
FileNames == {[text |-> "/foo", uri |-> FALSE],
              [text |-> "/foo bar", uri |-> FALSE],
              [text |-> "/foo  bar", uri |-> FALSE],
              [text |-> "/logs 09:15 out", uri |-> FALSE],
              [text |-> "hdfs://nn:8020/data/f 1", uri |-> TRUE],
              [text |-> "s3n://bucket/f3 win", uri |-> TRUE]}
PathLines == {[layout |-> l, name |-> n] : l \in Layouts, n \in FileNames}

\* The most lines in one listing
MaxPathLines == 2
PathListings == UNION {[1..n -> PathLines] : n \in 0..MaxPathLines}

\* The queries, each with the scheme://host it starts with
Queries == {[glob |-> "hdfs:///", prefix |-> "hdfs://"],
            [glob |-> "s3n://bucket/", prefix |-> "s3n://bucket"],
            [glob |-> "hdfs://nn:8020/data", prefix |-> "hdfs://nn:8020"]}

PathListingText(lines) ==
    Concat([i \in 1..Len(lines) |-> lines[i].layout \o lines[i].name.text \o "\n"])

InitLsPath ==
    /\ hadoop_version = None
    /\ hdfs = EmptyHdfs
    /\ scratch = "none"
    /\ calls = <<>>
    /\ op \in {[name |-> "ls_paths", path |-> q.glob, prefix |-> q.prefix, lines |-> l,
                out |-> Pending] : q \in Queries, l \in PathListings}

\* ls(path_glob) when the tool exits with 0 and prints the listing
LsPaths ==
    /\ op.out.exc = "pending"
    /\ op' = [op EXCEPT !.out = ls_invoke(op.path,
                                            ToolOutcome(0, PathListingText(op.lines), "", hdfs)).out]
    /\ UNCHANGED <<hadoop_version, hdfs, scratch, calls>>

SpecLsPath == InitLsPath /\ [][LsPaths]_vars

(***************************************************************************)
(* SpecLsErr: ls over the ways `fs -lsr` may end                           *)
(***************************************************************************)
\* What the tool may leave on stderr
LsStderrTexts ==
    { "",
      "lsr: Cannot access hdfs:///p: No such file or directory.\n",
      "lsr: Cannot access hdfs:///p: No such file or directory.",
      "lsr: Cannot access hdfs:///p: No such file or directory\n",
      "WARN conf.Configuration: x\nlsr: Cannot access hdfs:///p: No such file or directory.\n",
      "lsr: Permission denied: user=dave\n",
      "java.io.IOException: boom\n" }

\* What the tool may have printed on stdout by then
LsStdoutTexts == {"", LsLine1.text \o "\n", LsLine2.text \o "\n"}

InitLsErr ==
    /\ hadoop_version = None
    /\ hdfs = EmptyHdfs
    /\ scratch = "none"
    /\ calls = <<>>
    /\ op \in {[name |-> "ls_status", path |-> "hdfs:///p", rc |-> rc, stderr |-> e,
                stdout |-> o, out |-> Pending] :
                 rc \in ReturnCodes, e \in LsStderrTexts, o \in LsStdoutTexts}

\* ls(path_glob) when the tool ends with rc, stdout and stderr
LsStatus ==
    /\ op.out.exc = "pending"
    /\ op' = [op EXCEPT !.out = ls_invoke(op.path,
                                            ToolOutcome(op.rc, op.stdout, op.stderr, hdfs)).out]
    /\ UNCHANGED <<hadoop_version, hdfs, scratch, calls>>

SpecLsErr == InitLsErr /\ [][LsStatus]_vars

(***************************************************************************)
(* Properties                                                              *)
(***************************************************************************)
\* C2: rm(path_glob) runs `fs -rmr path_glob` exactly once, and when the
\* tool exits non-zero reporting on stderr that the target is not there, rm
\* returns normally, whatever the scheme of the URI.
C2_RmAbsentTolerated ==
    op.name = "rm" =>
        /\ calls = <<hadoop_bin \o <<"fs", "-rmr", op.path>>>>
        /\ (op.returncode # 0 /\ op.stderr = "rmr: " \o op.path \o "\n") => op.out.exc = "none"

\* C3: after rm(P) has returned, for P with or without a trailing separator,
\* path_exists(P) returns False and ls(P) yields nothing; after rm(P/*) has
\* removed something, nothing is left below P, ls(P) yields nothing and
\* path_exists(P) returns True.
C3_RmThenGone ==
    (op.name = "rm" /\ op.out.exc = "none") =>
        IF EndsWith(op.path, "/*")
        THEN op.returncode = 0 =>
               /\ \A n \in Range(Nodes) :
                     Under(NodeOf(urlparse(SubSeq(op.path, 1, Len(op.path) - 2)).path), n)
                        => ~Exists(hdfs, n)
               /\ path_exists(SubSeq(op.path, 1, Len(op.path) - 2), Calm).out.exc = "none"
               /\ path_exists(SubSeq(op.path, 1, Len(op.path) - 2), Calm).out.val = TRUE
               /\ ls(SubSeq(op.path, 1, Len(op.path) - 2), Calm).out.exc = "none"
               /\ ls(SubSeq(op.path, 1, Len(op.path) - 2), Calm).out.val = <<>>
        ELSE /\ path_exists(op.path, Calm).out.exc = "none"
             /\ path_exists(op.path, Calm).out.val = FALSE
             /\ ls(op.path, Calm).out.exc = "none"
             /\ ls(op.path, Calm).out.val = <<>>

\* A tree has been removed through a path with a trailing separator
C3_Witness ==
    /\ op.name = "rm" /\ op.out.exc = "none"
    /\ op.path = "hdfs:///p/" /\ op.returncode = 0

\* C4: when write or copy_from_local gets as far as the upload and the
\* destination is already there, the call raises OSError and the store,
\* the destination's content included, is what it was before the call.
C4_NoOverwrite ==
    [][(/\ op'.name \in {"write", "copy_from_local"}
        /\ Len(calls') = 1
        /\ Exists(hdfs, NodeOf(urlparse(op'.path).path)))
          => (op'.out.exc = "OSError" /\ hdfs' = hdfs)]_vars

\* A write has been refused because its destination was there
C4_Witness ==
    /\ op.name = "write" /\ op.out.exc = "OSError"
    /\ StartsWith(op.stderr, "put: Target")
    /\ NodeOf(urlparse(op.path).path) \in DOMAIN hdfs.files

\* C5: whenever write has returned or raised, the scratch file it made is
\* gone.
C5_ScratchRemoved == op.name = "write" => scratch = "removed"

\* C6: after write(path, content) to a destination that was not there has
\* returned, the lines _cat_file(path) yields, put together, are the written
\* content: the string, or what the stream had left to read.
C6_WriteThenRead ==
    (op.name = "write" /\ op.out.exc = "none") =>
        /\ cat_file(op.path, Calm).out.exc = "none"
        /\ Concat(cat_file(op.path, Calm).out.val)
             = (IF op.arg.kind = "str" THEN op.arg.data
                ELSE SubSeq(op.arg.data, op.arg.pos + 1, Len(op.arg.data)))

\* A stream has been written
C6_Witness ==
    /\ op.name = "write" /\ op.out.exc = "none"
    /\ op.arg.kind = "file" /\ op.arg.pos = 0
    /\ op.returncode = 0

\* C7: a mkdir that the tool refuses with "File exists" on stderr returns
\* normally, and a mkdir that fails in any other way raises IOError.
C7_MkdirIdempotent ==
    op.name = "mkdir" =>
        /\ (op.returncode # 0 /\ IndexOf(op.stderr, "File exists", 1) > 0) => op.out.exc = "none"
        /\ op.out.exc \in {"none", "IOError"}

\* C8: once the version is cached, no step changes the cache, no method
\* runs `hadoop version`, and get_hadoop_version returns the cached value.
C8_VersionCached ==
    [][~Falsy(hadoop_version) =>
          /\ hadoop_version' = hadoop_version
          /\ \A i \in 1..Len(calls') : calls'[i] # hadoop_bin \o <<"version">>
          /\ op'.name = "get_hadoop_version" =>
                (op'.out.exc = "none" /\ op'.out.val = hadoop_version.v)]_vars

\* get_hadoop_version has answered from the cache
C8_Witness ==
    /\ op.name = "get_hadoop_version" /\ calls = <<>>
    /\ op.out.exc = "none" /\ ~Falsy(hadoop_version)

\* C9: over the lines up to the first one ls cannot parse, ls yields one
\* path for each line that does not begin with 'd', in the order of the
\* lines, each the path that line names, and nothing for the lines that
\* begin with 'd'.
C9_OnePathPerFile ==
    (op.name = "ls_stdout" /\ op.out.exc # "pending") =>
        LET bad == {i \in 1..Len(op.lines) : op.lines[i].path = ""
                                               /\ ~StartsWith(op.lines[i].text, "d")}
            read == IF bad = {} THEN op.lines ELSE SubSeq(op.lines, 1, Min(bad) - 1)
            notdir(l) == ~StartsWith(l.text, "d")
            files == SelectSeq(read, notdir)
        IN  /\ Len(op.out.val) = Len(files)
            /\ \A k \in 1..Len(files) : op.out.val[k] = "hdfs://" \o files[k].path
            /\ bad = {} => op.out.exc = "none"

\* Two files listed at different depths, with a directory between them
C9_Witness ==
    /\ op.name = "ls_stdout" /\ op.out.exc # "pending"
    /\ op.lines = <<LsLine1, LsLine2, LsLine3>>
    /\ op.out.exc = "none" /\ Len(op.out.val) = 2

\* C10 as stated: every listing with a line that has no token of 5
\* characters with a colon at index 2 makes ls raise IOError.
C10_AnyLineRaises ==
    (op.name = "ls_stdout" /\ op.out.exc # "pending") =>
        ((\E i \in 1..Len(op.lines) :
              \A j \in 1..Len(Split(op.lines[i].text, " ")) :
                  ~(/\ Len(Split(op.lines[i].text, " ")[j]) = 5
                    /\ SubSeq(Split(op.lines[i].text, " ")[j], 3, 3) = ":"))
           => op.out.exc = "IOError")

\* C10: a line that does not begin with 'd' and has no token of 5
\* characters with a colon at index 2 makes ls raise IOError; the message
\* holds the first such line without its line end, and what ls has yielded
\* by then are the paths of the lines before it.
C10_FileLineRaises ==
    (op.name = "ls_stdout" /\ op.out.exc # "pending") =>
        LET noclock(t) == \A j \in 1..Len(Split(t, " ")) :
                              ~(Len(Split(t, " ")[j]) = 5 /\ SubSeq(Split(t, " ")[j], 3, 3) = ":")
            bad == {i \in 1..Len(op.lines) : /\ ~StartsWith(op.lines[i].text, "d")
                                             /\ noclock(op.lines[i].text)}
        IN  bad # {} =>
              /\ op.out.exc = "IOError"
              /\ op.out.msg = "Could not locate path in string '"
                                \o op.lines[Min(bad)].text \o "'"
              /\ Len(op.out.val)
                   = Cardinality({i \in 1..(Min(bad) - 1) : ~StartsWith(op.lines[i].text, "d")})

\* ls has raised on a line after it had yielded a path
C10_Witness ==
    /\ op.name = "ls_stdout" /\ op.out.exc # "pending"
    /\ op.lines = <<LsLine1, LsLine5, LsLine4>>
    /\ op.out.exc = "IOError" /\ Len(op.out.val) = 1

\* The sizes of the lines added up
RECURSIVE SizeSum(_)
SizeSum(lines) == IF lines = <<>> THEN 0 ELSE Head(lines).size + SizeSum(Tail(lines))

C12_NoRawCalledProcessError ==
    op.name \in {"ls", "rm", "mkdir", "path_exists", "write", "copy_from_local", "cat"}
        => op.out.exc # "CalledProcessError"

\* C13: once the consumer is done with the stream of _cat_file, whether it
\* has read it to the end or has stopped before, the subprocess has been
\* waited for.
C13_CatProcReleased ==
    (op.name = "cat_stream" /\ op.gen \in {"finished", "closed"}) => op.waited

\* C14: path_exists returns True when `fs -test -e` exits with 0, False
\* when it exits with 1, and raises IOError for every other return code.
C14_PathExistsByReturnCode ==
    op.name = "path_exists" =>
        CASE op.returncode = 0 -> op.out.exc = "none" /\ op.out.val = TRUE
          [] op.returncode = 1 -> op.out.exc = "none" /\ op.out.val = FALSE
          [] OTHER -> op.out.exc = "IOError"
                        /\ op.out.msg = "Could not check path " \o op.path

\* path_exists has answered False from the return code 1
C14_Witness ==
    /\ op.name = "path_exists" /\ op.returncode = 1
    /\ op.out.exc = "none" /\ op.out.val = FALSE

\* C15: get_hadoop_version returns the run of digits and dots that begins
\* at the first digit or dot of the first line of stdout and ends where
\* the next character is neither; when stdout is empty or its first line
\* has no digit and no dot it returns '0.20.203'; what it returns is cached,
\* and the next call returns it without running the tool.
C15_VersionParsed ==
    (op.name = "version_stdout" /\ op.out.exc # "pending") =>
        LET k == IndexOf(op.stdout, "\n", 1)
            first == IF k = 0 THEN op.stdout ELSE SubSeq(op.stdout, 1, k - 1)
            D == {i \in 1..Len(first) : SubSeq(first, i, i) \in Digits \cup {"."}}
            v == op.out.val
        IN  /\ op.out.exc = "none"
            /\ IF D = {}
               THEN v = "0.20.203"
               ELSE /\ Len(v) >= 1
                    /\ Min(D) + Len(v) - 1 <= Len(first)
                    /\ v = SubSeq(first, Min(D), Min(D) + Len(v) - 1)
                    /\ \A i \in Min(D)..(Min(D) + Len(v) - 1) : i \in D
                    /\ (Min(D) + Len(v)) \notin D
            /\ hadoop_version = Some(v)
            /\ op.again.exc # "pending" => (op.again.exc = "none" /\ op.again.val = v /\ calls = <<>>)

\* The default has been cached and returned again, the first line having
\* no digit and no dot while the second has
C15_Witness ==
    /\ op.name = "version_stdout" /\ op.again.exc # "pending"
    /\ op.stdout = "Hadoop \n2.0.0"
    /\ op.again.val = "0.20.203"

C18_NameIntact ==
    (op.name = "ls_paths" /\ op.out.exc # "pending") =>
        /\ op.out.exc = "none"
        /\ Len(op.out.val) = Len(op.lines)
        /\ \A k \in 1..Len(op.lines) :
              op.out.val[k] \in {op.lines[k].name.text, op.prefix \o op.lines[k].name.text}

====
